---- MODULE Spec2Model ----
(***************************************************************************)
(* The SQLite exporter of note-organizer (src/export_to_sqlite.py): the    *)
(* relational store, parse_macos_date, NotesDatabase.import_note, and the  *)
(* run of main(); with the image list split_individual.py writes.          *)
(*                                                                         *)
(* A table is the sequence of its rows in insertion order.  A note record  *)
(* (the dict json.load returns) is a TLA+ record; a key the JSON object    *)
(* does not carry is Absent, a JSON null is NullV.                         *)
(***************************************************************************)
EXTENDS Integers, Sequences, FiniteSets, TLC

\* ------------------------------------------------------------ JSON values

\* the key is missing from the JSON object
Absent == "<absent>"

\* JSON null, Python None, SQL NULL
NullV == "<null>"

\* dict.get(key, default) on a string-valued key
Get(v, default) == IF v = Absent THEN default ELSE v

\* a list-valued key: a JSON array, a JSON null, or missing
JList(s) == [shape |-> "list", items |-> s]

JNull == [shape |-> "null", items |-> <<>>]

JAbsent == [shape |-> "absent", items |-> <<>>]

\* a bare-string entry of tasks / ideas / projects
Str(s) == [t |-> "str", text |-> s]

\* an object entry of tasks / ideas / projects; text is Absent when the
\* object lacks the field the importer reads
Obj(s) == [t |-> "obj", text |-> s]

\* a bare-filename entry of extracted_data.images
ImgStr(f) ==
    [t |-> "str", filename |-> f, path |-> [dir |-> Absent, name |-> Absent],
     format |-> Absent, size |-> -1,
     relative_path |-> [dir |-> Absent, name |-> Absent], size_bytes |-> -1]

\* a relative path <dir>/<name>
Path(dir, name) == [dir |-> dir, name |-> name]

\* the image object has no "path" key
NoPath == [dir |-> Absent, name |-> Absent]

\* a string of analysis.plain_text, known by its length
Text(n) == [shape |-> "str", len |-> n]

NoText == [shape |-> "absent", len |-> 0]

\* an object entry of extracted_data.images with the keys the importer
\* reads: filename, path, format, size (size -1: the key is missing)
ImgObj(f, p, fmt, sz) ==
    [t |-> "obj", filename |-> f, path |-> p, format |-> fmt, size |-> sz,
     relative_path |-> NoPath, size_bytes |-> -1]

\* a date string is the sequence of its words, which single spaces
\* separate; a word is known by its kind and its numbers
Tok(k, v) == [k |-> k, v |-> v]

\* "Saturday,": letters and a comma
Weekday == Tok("weekday", <<6>>)

\* "November" and "Nov"
Month == Tok("month", <<11>>)

Mon == Tok("mon", <<11>>)

\* "8," and "2025"
Day == Tok("day", <<8>>)

Year == Tok("year", <<2025>>)

At == Tok("at", <<>>)

\* "21:59:06"
Time(h, m, sec) == Tok("time", <<h, m, sec>>)

\* "AM" (0) and "PM" (1)
Ampm(pm) == Tok("ampm", <<pm>>)

\* "2025-11-08"
IsoDate == Tok("isodate", <<2025, 11, 8>>)

\* any other word ("yesterday")
Word == Tok("word", <<>>)

\* the value under "created" / "modified": a string, null, or missing
DateStr(t) == [shape |-> "str", tokens |-> t]

NullDate == [shape |-> "null", tokens |-> <<>>]

NoDate == [shape |-> "absent", tokens |-> <<>>]

\* analysis: the dict under "analysis" ({} when every key is missing)
NoAnalysis ==
    [summary |-> Absent, plain_text |-> NoText, tasks |-> JAbsent,
     ideas |-> JAbsent, projects |-> JAbsent,
     links_categorized |-> [shape |-> "absent", items |-> <<>>]]

\* the note record every catalogue entry is derived from: a JSON object
\* carrying only note_id
Base(nid) ==
    [kind |-> "dict", note_id |-> nid, title |-> Absent, folder |-> Absent,
     account |-> Absent, id |-> Absent, status |-> Absent,
     created |-> NoDate, modified |-> NoDate,
     categories |-> JAbsent,
     extracted_data |-> [shape |-> "absent", links |-> JAbsent, images |-> JAbsent],
     analysis |-> NoAnalysis]

\* ------------------------------------------------------------ the store

EmptyDb ==
    [notes |-> <<>>, extracted_links |-> <<>>, extracted_images |-> <<>>,
     note_categories |-> <<>>, analysis |-> <<>>, extracted_tasks |-> <<>>,
     extracted_ideas |-> <<>>, extracted_projects |-> <<>>,
     accounts |-> {}, folders |-> {},
     schema |-> {}, indexes |-> {}]

\* NotesDatabase.__init__: self.stats
EmptyStats ==
    [notes_imported |-> 0, links_imported |-> 0, images_imported |-> 0,
     categories_imported |-> 0, tasks_imported |-> 0, ideas_imported |-> 0,
     projects_imported |-> 0, errors |-> <<>>]

\* the set of the rows of a table
Rows(table) == {table[i] : i \in 1..Len(table)}

\* the rows of a table that belong to a note
Of(table, nid) == SelectSeq(table, LAMBDA row : row.note_id = nid)

\* the working state of one import_note call: the store, the statistics,
\* and whether an exception is propagating to the outer handler
St(d, s, e) == [db |-> d, stats |-> s, exc |-> e]

Count(s, counter) == [s EXCEPT !.stats[counter] = @ + 1]

LogError(s, kind, nid) ==
    [s EXCEPT !.stats.errors = Append(@, [kind |-> kind, note_id |-> nid])]

Raise(s) == [s EXCEPT !.exc = TRUE]

\* ------------------------------------------------------------ the schema

\* create_schema: the child tables, each with
\* FOREIGN KEY (note_id) REFERENCES notes(note_id) ON DELETE CASCADE
ChildTables ==
    {"extracted_links", "extracted_images", "analysis", "extracted_tasks",
     "extracted_ideas", "extracted_projects", "note_categories"}

\* connect without the PRAGMA: SQLite leaves foreign keys unenforced
connect_NoPragma == [foreign_keys |-> FALSE]

\* connect: PRAGMA foreign_keys = ON
connect == [foreign_keys |-> TRUE]

\* the tables create_schema names, in the order of its statements
Tables ==
    <<"notes", "extracted_links", "extracted_images", "analysis",
      "extracted_tasks", "extracted_ideas", "extracted_projects",
      "note_categories", "accounts", "folders">>

\* CREATE TABLE name: "table name already exists" is raised when the store
\* has the table
CreateTable_Plain(s, name) ==
    IF name \in s.db.schema THEN Raise(s)
    ELSE [s EXCEPT !.db.schema = @ \cup {name}]

\* CREATE TABLE IF NOT EXISTS name: a table the store has is left as it is
CreateTable(s, name) ==
    IF name \in s.db.schema THEN s
    ELSE [s EXCEPT !.db.schema = @ \cup {name}]

\* the CREATE TABLE statements from the k-th on; an exception ends them
RECURSIVE CreateTables(_, _)
CreateTables(s, k) ==
    IF k > Len(Tables) \/ s.exc THEN s
    ELSE CreateTables(CreateTable(s, Tables[k]), k + 1)

\* create_schema on store d: the store it leaves, and whether it raised
create_schema(d, st) == CreateTables(St(d, st, FALSE), 1)

\* the names of the indexes create_indexes names
Indexes ==
    {"idx_notes_folder", "idx_notes_account", "idx_notes_status",
     "idx_notes_primary_category", "idx_notes_created_datetime",
     "idx_notes_modified_datetime", "idx_notes_title", "idx_links_note_id",
     "idx_links_type", "idx_images_note_id", "idx_analysis_note_id",
     "idx_tasks_note_id", "idx_ideas_note_id", "idx_projects_note_id",
     "idx_categories_note_id"}

\* create_indexes: CREATE INDEX IF NOT EXISTS for every index; no row changes
create_indexes(d) == [d EXCEPT !.indexes = @ \cup Indexes]

\* the schema without UNIQUE(note_id, url) on extracted_links
Conflicts_NoLinkKey(d, table, row) ==
    CASE table = "extracted_images" ->
           \E r \in Rows(d[table]) : r.note_id = row.note_id /\ r.filename = row.filename
      [] table = "note_categories" ->
           \E r \in Rows(d[table]) : r.note_id = row.note_id /\ r.category = row.category
      [] table = "analysis" ->
           \E r \in Rows(d[table]) : r.note_id = row.note_id
      [] OTHER -> FALSE

\* create_schema: the UNIQUE constraints of the child tables
Conflicts(d, table, row) ==
    CASE table = "extracted_links" ->
           \E r \in Rows(d[table]) : r.note_id = row.note_id /\ r.url = row.url
      [] table = "extracted_images" ->
           \E r \in Rows(d[table]) : r.note_id = row.note_id /\ r.filename = row.filename
      [] table = "note_categories" ->
           \E r \in Rows(d[table]) : r.note_id = row.note_id /\ r.category = row.category
      [] table = "analysis" ->
           \E r \in Rows(d[table]) : r.note_id = row.note_id
      [] OTHER -> FALSE

\* create_schema: the NOT NULL columns of the child tables (beside note_id)
NullViolation(table, row) ==
    CASE table = "extracted_links" -> row.url = NullV
      [] table = "extracted_images" -> row.filename = NullV
      [] table = "note_categories" -> row.category = NullV
      [] table = "extracted_tasks" -> row.task_text = NullV
      [] table = "extracted_ideas" -> row.idea_text = NullV
      [] table = "extracted_projects" -> row.project_name = NullV
      [] OTHER -> FALSE

\* the foreign key of a child row, enforced while foreign_keys is ON
ForeignKeyOk(d, row) ==
    connect.foreign_keys => \E n \in Rows(d.notes) : n.note_id = row.note_id

\* the notes table without PRIMARY KEY on note_id
NotesConstraintsOk_NoPrimaryKey(notes, row) ==
    /\ row.coredata_id # NullV =>
          \A r \in Rows(notes) : r.coredata_id # row.coredata_id
    /\ row.title # NullV /\ row.folder # NullV /\ row.account # NullV
    /\ row.created_raw.shape # "null" /\ row.modified_raw.shape # "null"

\* create_schema: the constraints of the notes table: note_id PRIMARY KEY,
\* coredata_id UNIQUE (SQL NULLs never collide), the NOT NULL columns
NotesConstraintsOk(notes, row) ==
    /\ \A r \in Rows(notes) : r.note_id # row.note_id
    /\ row.coredata_id # NullV =>
          \A r \in Rows(notes) : r.coredata_id # row.coredata_id
    /\ row.title # NullV /\ row.folder # NullV /\ row.account # NullV
    /\ row.created_raw.shape # "null" /\ row.modified_raw.shape # "null"

\* INSERT OR IGNORE INTO <table>: a row that breaks a UNIQUE or NOT NULL
\* constraint is skipped without an error; a foreign-key violation raises
InsertOrIgnore(d, table, row) ==
    IF Conflicts(d, table, row) \/ NullViolation(table, row)
    THEN d
    ELSE [d EXCEPT ![table] = Append(@, row)]

\* DELETE FROM notes WHERE note_id = nid, on a connection set up as connect
\* does: with foreign_keys ON the rows of every child table that reference
\* the note go with it (ON DELETE CASCADE)
DeleteFromNotes(d, nid) ==
    LET keep(table) ==
            IF table = "notes" \/ (table \in ChildTables /\ connect.foreign_keys)
            THEN SelectSeq(d[table], LAMBDA row : row.note_id # nid)
            ELSE d[table]
    IN  [d EXCEPT
           !.notes = keep("notes"),
           !.extracted_links = keep("extracted_links"),
           !.extracted_images = keep("extracted_images"),
           !.note_categories = keep("note_categories"),
           !.analysis = keep("analysis"),
           !.extracted_tasks = keep("extracted_tasks"),
           !.extracted_ideas = keep("extracted_ideas"),
           !.extracted_projects = keep("extracted_projects")]

\* ------------------------------------------------------------ import_note

\* a datetime value, and None
Datetime(d, t) == [shape |-> "datetime", date |-> d, time |-> t]

NoDatetime == [shape |-> "null", date |-> <<>>, time |-> <<>>]

\* the kinds of the words of a string
Kinds(t) == [i \in 1..Len(t) |-> t[i].k]

\* re.sub(r'^[A-Za-z]+,\s+', '', date_str): a leading word of letters
\* with a comma goes, when a word follows it
StripWeekday(t) == IF Len(t) > 1 /\ t[1].k = "weekday" THEN Tail(t) ELSE t

\* strptime(date_part, '%B %d, %Y') or '%b %d, %Y': <<year, month, day>>,
\* or <<>> when neither format fits
DatePart(p) ==
    IF Kinds(p) \in {<<"month", "day", "year">>, <<"mon", "day", "year">>}
    THEN <<p[3].v[1], p[1].v[1], p[2].v[1]>>
    ELSE <<>>

\* strptime(time_part, '%H:%M:%S') or '%I:%M:%S %p': <<hour, minute,
\* second>> on the 24-hour clock, or <<>> when neither format fits
TimePart(p) ==
    IF Kinds(p) = <<"time">> /\ p[1].v[1] \in 0..23
    THEN p[1].v
    ELSE IF Kinds(p) = <<"time", "ampm">> /\ p[1].v[1] \in 1..12
    THEN <<(p[1].v[1] % 12) + 12 * p[2].v[1], p[1].v[2], p[1].v[3]>>
    ELSE <<>>

\* the fallback formats '%Y-%m-%d %H:%M:%S' and '%Y-%m-%d'
Fallback(t) ==
    IF Kinds(t) = <<"isodate", "time">> /\ t[2].v[1] \in 0..23
    THEN Datetime(t[1].v, t[2].v)
    ELSE IF Kinds(t) = <<"isodate">>
    THEN Datetime(t[1].v, <<0, 0, 0>>)
    ELSE NoDatetime

\* the branch taken when ' at ' is in the cleaned string: split at it
\* (more than two parts: the unpacking raises and the handler returns
\* None); no date: None; a date and no time: the fallback formats
AtBranch(t, clean, ats) ==
    IF Cardinality(ats) > 1 THEN NoDatetime
    ELSE IF DatePart(SubSeq(clean, 1, (CHOOSE i \in ats : TRUE) - 1)) = <<>>
    THEN NoDatetime
    ELSE IF TimePart(SubSeq(clean, (CHOOSE i \in ats : TRUE) + 1, Len(clean))) # <<>>
    THEN Datetime(DatePart(SubSeq(clean, 1, (CHOOSE i \in ats : TRUE) - 1)),
                  TimePart(SubSeq(clean, (CHOOSE i \in ats : TRUE) + 1, Len(clean))))
    ELSE Fallback(t)

\* parse_macos_date(date_str); the fallback formats are tried on the
\* string as given, the weekday still in it
parse_macos_date(date_str) ==
    IF date_str.shape # "str" \/ date_str.tokens = <<>>
    THEN NoDatetime
    ELSE IF \E i \in 2..(Len(StripWeekday(date_str.tokens)) - 1) :
               StripWeekday(date_str.tokens)[i].k = "at"
    THEN AtBranch(date_str.tokens, StripWeekday(date_str.tokens),
                  {i \in 2..(Len(StripWeekday(date_str.tokens)) - 1) :
                      StripWeekday(date_str.tokens)[i].k = "at"})
    ELSE Fallback(date_str.tokens)

\* note_data.get('created', ''), note_data.get('modified', '')
GetDate(field) == IF field.shape = "absent" THEN DateStr(<<>>) ELSE field

\* the folder and account arguments bound in each other's place
NoteRow_Swapped(nd) ==
    [note_id |-> nd.note_id,
     title |-> Get(nd.title, "Untitled"),
     folder |-> Get(nd.account, "Unknown"),
     account |-> Get(nd.folder, "Notes"),
     coredata_id |-> Get(nd.id, ""),
     status |-> Get(nd.status, "pending"),
     created_raw |-> GetDate(nd.created),
     created_datetime |-> parse_macos_date(GetDate(nd.created)),
     modified_raw |-> GetDate(nd.modified),
     modified_datetime |-> parse_macos_date(GetDate(nd.modified))]

\* created_raw and modified_raw bound to the cleaned string, the weekday
\* taken off
NoteRow_CleanedRaw(nd) ==
    [note_id |-> nd.note_id,
     title |-> Get(nd.title, "Untitled"),
     folder |-> Get(nd.folder, "Notes"),
     account |-> Get(nd.account, "Unknown"),
     coredata_id |-> Get(nd.id, ""),
     status |-> Get(nd.status, "pending"),
     created_raw |-> [GetDate(nd.created) EXCEPT !.tokens = StripWeekday(@)],
     created_datetime |-> parse_macos_date(GetDate(nd.created)),
     modified_raw |-> [GetDate(nd.modified) EXCEPT !.tokens = StripWeekday(@)],
     modified_datetime |-> parse_macos_date(GetDate(nd.modified))]

\* the values bound to the INSERT INTO notes statement
NoteRow(nd) ==
    [note_id |-> nd.note_id,
     title |-> Get(nd.title, "Untitled"),
     folder |-> Get(nd.folder, "Notes"),
     account |-> Get(nd.account, "Unknown"),
     coredata_id |-> Get(nd.id, ""),
     status |-> Get(nd.status, "pending"),
     created_raw |-> GetDate(nd.created),
     created_datetime |-> parse_macos_date(GetDate(nd.created)),
     modified_raw |-> GetDate(nd.modified),
     modified_datetime |-> parse_macos_date(GetDate(nd.modified))]

\* INSERT OR REPLACE INTO notes: the row holding the note_id is deleted
\* (its children cascade) and the new row takes its place
InsertNote_Replace(s, nd) ==
    LET cleared == [s EXCEPT !.db = DeleteFromNotes(@, nd.note_id)]
    IN  IF NotesConstraintsOk(cleared.db.notes, NoteRow(nd))
        THEN Count([cleared EXCEPT !.db.notes = Append(@, NoteRow(nd))], "notes_imported")
        ELSE Raise(s)

\* INSERT OR IGNORE INTO notes: a row that breaks a constraint is skipped
\* without an error, and the children of the record are inserted
InsertNote_OrIgnore(s, nd) ==
    IF NotesConstraintsOk(s.db.notes, NoteRow(nd))
    THEN Count([s EXCEPT !.db.notes = Append(@, NoteRow(nd))], "notes_imported")
    ELSE Count(s, "notes_imported")

\* INSERT INTO notes, then notes_imported += 1; a constraint violation
\* raises sqlite3.IntegrityError and the statement changes nothing
InsertNote(s, nd) ==
    IF NotesConstraintsOk(s.db.notes, NoteRow(nd))
    THEN Count([s EXCEPT !.db.notes = Append(@, NoteRow(nd))], "notes_imported")
    ELSE Raise(s)

\* one pass of a "try: INSERT OR IGNORE ...; counter += 1  except: ..." body
TryInsertOrIgnore(s, table, row, counter, errkind) ==
    IF ForeignKeyOk(s.db, row)
    THEN Count([s EXCEPT !.db = InsertOrIgnore(@, table, row)], counter)
    ELSE IF errkind = "" THEN s ELSE LogError(s, errkind, row.note_id)

\* one pass of a "try: INSERT ...; counter += 1  except: log" body
TryInsert(s, table, row, counter, errkind) ==
    IF ForeignKeyOk(s.db, row) /\ ~NullViolation(table, row)
    THEN Count([s EXCEPT !.db[table] = Append(@, row)], counter)
    ELSE LogError(s, errkind, row.note_id)

RECURSIVE LinkLoop(_, _, _, _, _)
\* for link in <list>: INSERT OR IGNORE INTO extracted_links
LinkLoop(s, nid, urls, link_type, errkind) ==
    IF urls = <<>> THEN s
    ELSE LinkLoop(
           TryInsertOrIgnore(s, "extracted_links",
               [note_id |-> nid, url |-> Head(urls), link_type |-> link_type],
               "links_imported", errkind),
           nid, Tail(urls), link_type, errkind)

\* links = extracted_data.get('links', []); for link in links: ...
\* (extracted_data that is no dict, or links that is null, raises).
\* Here and below: a propagating exception skips the statement
ImportLinks(s, nd) ==
    IF s.exc THEN s
    ELSE IF nd.extracted_data.shape \notin {"absent", "dict"} THEN Raise(s)
    ELSE IF nd.extracted_data.links.shape = "null" THEN Raise(s)
    ELSE LinkLoop(s, nd.note_id, nd.extracted_data.links.items, NullV, "link_error")

RECURSIVE CategorizedLoop(_, _, _)
\* for link_type, link_list in links_categorized.items(): for link in link_list
CategorizedLoop(s, nid, groups) ==
    IF groups = <<>> THEN s
    ELSE IF Head(groups).links.shape = "null" THEN Raise(s)
    ELSE CategorizedLoop(
           LinkLoop(s, nid, Head(groups).links.items, Head(groups).link_type, ""),
           nid, Tail(groups))

\* the categorized links of analysis.links_categorized (a value that is
\* no dict has no .items() and raises)
ImportCategorizedLinks(s, nd) ==
    IF s.exc THEN s
    ELSE IF nd.analysis.links_categorized.shape \notin {"absent", "dict"} THEN Raise(s)
    ELSE CategorizedLoop(s, nd.note_id, nd.analysis.links_categorized.items)

\* the relative path of a bare filename bound to the filename alone
ImageRow_NoDirectory(nid, image, idx) ==
    IF image.t = "obj"
    THEN [note_id |-> nid,
          filename |-> Get(image.filename, ""),
          relative_path |-> IF image.path = NoPath
                            THEN Path("images", Get(image.filename, ""))
                            ELSE image.path,
          image_format |-> Get(image.format, ""),
          size_bytes |-> IF image.size = -1 THEN 0 ELSE image.size,
          extraction_order |-> idx]
    ELSE [note_id |-> nid,
          filename |-> image.filename,
          relative_path |-> Path("", image.filename),
          image_format |-> "",
          size_bytes |-> 0,
          extraction_order |-> idx]

\* the values bound for one entry of extracted_data.images: of an object
\* the keys filename, path, format and size are read
ImageRow(nid, image, idx) ==
    IF image.t = "obj"
    THEN [note_id |-> nid,
          filename |-> Get(image.filename, ""),
          relative_path |-> IF image.path = NoPath
                            THEN Path("images", Get(image.filename, ""))
                            ELSE image.path,
          image_format |-> Get(image.format, ""),
          size_bytes |-> IF image.size = -1 THEN 0 ELSE image.size,
          extraction_order |-> idx]
    ELSE [note_id |-> nid,
          filename |-> image.filename,
          relative_path |-> Path("images", image.filename),
          image_format |-> "",
          size_bytes |-> 0,
          extraction_order |-> idx]

RECURSIVE ImageLoop(_, _, _, _)
\* for idx, image in enumerate(images, 1): INSERT OR IGNORE INTO extracted_images
ImageLoop(s, nid, images, idx) ==
    IF images = <<>> THEN s
    ELSE ImageLoop(
           TryInsertOrIgnore(s, "extracted_images", ImageRow(nid, Head(images), idx),
               "images_imported", "image_error"),
           nid, Tail(images), idx + 1)

\* the images counted from 0: enumerate(images)
ImportImages_ZeroBased(s, nd) ==
    IF s.exc THEN s
    ELSE IF nd.extracted_data.images.shape = "null" THEN Raise(s)
    ELSE ImageLoop(s, nd.note_id, nd.extracted_data.images.items, 0)

\* images = extracted_data.get('images', []); for idx, image in
\* enumerate(images, 1): ...
ImportImages(s, nd) ==
    IF s.exc THEN s
    ELSE IF nd.extracted_data.images.shape = "null" THEN Raise(s)
    ELSE ImageLoop(s, nd.note_id, nd.extracted_data.images.items, 1)

RECURSIVE CategoryLoop(_, _, _)
\* for category in categories: INSERT OR IGNORE INTO note_categories
CategoryLoop(s, nid, categories) ==
    IF categories = <<>> THEN s
    ELSE CategoryLoop(
           TryInsertOrIgnore(s, "note_categories",
               [note_id |-> nid, category |-> Head(categories)],
               "categories_imported", ""),
           nid, Tail(categories))

ImportCategories(s, nd) ==
    IF s.exc THEN s
    ELSE IF nd.categories.shape = "null" THEN Raise(s)
    ELSE CategoryLoop(s, nd.note_id, nd.categories.items)

\* "if analysis:" a dict is true when it has at least one key
AnalysisPresent(nd) == nd.analysis # NoAnalysis

\* analysis.get('plain_text', '')[:1000]
SampleLimit == 1000

Sample(text) == IF text.len > SampleLimit THEN SampleLimit ELSE text.len

\* the analysis row inserted without the "if summary or
\* plain_text_sample" test
ImportAnalysisRow_Unguarded(s, nd) ==
    LET summary == Get(nd.analysis.summary, "")
        sample == Sample(nd.analysis.plain_text)
        row == [note_id |-> nd.note_id, summary |-> summary, plain_text_sample |-> sample]
    IN  IF nd.analysis.plain_text.shape = "null" THEN Raise(s)
        ELSE IF ForeignKeyOk(s.db, row)
             THEN [s EXCEPT !.db = InsertOrIgnore(@, "analysis", row)]
             ELSE LogError(s, "analysis_error", nd.note_id)

\* the analysis row: inserted when the summary or the sample is non-empty;
\* an execute that raises is logged
ImportAnalysisRow(s, nd) ==
    LET summary == Get(nd.analysis.summary, "")
        sample == Sample(nd.analysis.plain_text)
        row == [note_id |-> nd.note_id, summary |-> summary, plain_text_sample |-> sample]
    IN  IF nd.analysis.plain_text.shape = "null" THEN Raise(s)
        ELSE IF summary \in {"", NullV} /\ sample = 0 THEN s
        ELSE IF ForeignKeyOk(s.db, row)
             THEN [s EXCEPT !.db = InsertOrIgnore(@, "analysis", row)]
             ELSE LogError(s, "analysis_error", nd.note_id)

\* the text read from the field of an object only
EntryText_ObjectOnly(entry) == IF entry.t = "obj" THEN Get(entry.text, "") ELSE ""

\* the field read without a default: task.get('text') is None when the
\* object lacks the field
EntryText_NoDefault(entry) ==
    IF entry.t = "str" THEN entry.text
    ELSE IF entry.text = Absent THEN NullV ELSE entry.text

\* task if isinstance(task, str) else task.get('text', '')
EntryText(entry) == IF entry.t = "str" THEN entry.text ELSE Get(entry.text, "")

RECURSIVE EntryLoop(_, _, _, _, _, _, _)
\* for task in tasks / idea in ideas / project in projects: INSERT INTO ...
EntryLoop(s, nid, entries, table, column, counter, errkind) ==
    IF entries = <<>> THEN s
    ELSE EntryLoop(
           IF Head(entries).t \in {"str", "obj"}
           THEN TryInsert(s, table,
                    [note_id |-> nid] @@ (column :> EntryText(Head(entries))),
                    counter, errkind)
           ELSE LogError(s, errkind, nid),
           nid, Tail(entries), table, column, counter, errkind)

ImportEntries(s, nid, list, table, column, counter, errkind) ==
    IF s.exc THEN s
    ELSE IF list.shape = "null" THEN Raise(s)
    ELSE EntryLoop(s, nid, list.items, table, column, counter, errkind)

\* the "if analysis:" block placed after the try statement: it runs
\* although the Note insert failed
ImportAnalysis_Always(s, nd) ==
    IF ~AnalysisPresent(nd) THEN s
    ELSE ImportEntries(
           ImportEntries(
             ImportEntries(ImportAnalysisRow(s, nd),
                 nd.note_id, nd.analysis.tasks,
                 "extracted_tasks", "task_text", "tasks_imported", "task_error"),
             nd.note_id, nd.analysis.ideas,
             "extracted_ideas", "idea_text", "ideas_imported", "idea_error"),
           nd.note_id, nd.analysis.projects,
           "extracted_projects", "project_name", "projects_imported", "project_error")

\* the "if analysis:" block: the analysis row, then tasks, ideas, projects
ImportAnalysis(s, nd) ==
    IF s.exc \/ ~AnalysisPresent(nd) THEN s
    ELSE ImportEntries(
           ImportEntries(
             ImportEntries(ImportAnalysisRow(s, nd),
                 nd.note_id, nd.analysis.tasks,
                 "extracted_tasks", "task_text", "tasks_imported", "task_error"),
             nd.note_id, nd.analysis.ideas,
             "extracted_ideas", "idea_text", "ideas_imported", "idea_error"),
           nd.note_id, nd.analysis.projects,
           "extracted_projects", "project_name", "projects_imported", "project_error")

\* "if note_id is None"
Falsy_NoneOnly(v) == v \in {Absent, NullV}

\* "if not note_id"
Falsy(v) == v \in {Absent, NullV, ""}

\* the try block of import_note after the note_id test: the Note row,
\* the links, the categorized links, the images, the categories, the
\* analysis block
ImportBody(s, nd) ==
    ImportAnalysis(
      ImportCategories(
        ImportImages(
          ImportCategorizedLinks(
            ImportLinks(InsertNote(s, nd), nd), nd), nd), nd), nd)

\* "except Exception as e": the error is logged; no statement is undone
OuterHandler(s, nd) ==
    IF s.exc
    THEN [LogError(s, "failed_import", Get(nd.note_id, "unknown")) EXCEPT !.exc = FALSE]
    ELSE s

\* import_note(note_data) on store d and statistics st.  escaped: an
\* exception leaves import_note (note_data that is no dict raises in the
\* try block and again in the handler's note_data.get)
import_note(d, st, nd) ==
    IF nd.kind # "dict"
    THEN [db |-> d, stats |-> st, escaped |-> TRUE]
    ELSE IF Falsy(nd.note_id)
    THEN [db |-> d,
          stats |-> LogError(St(d, st, FALSE), "missing_note_id", NullV).stats,
          escaped |-> FALSE]
    ELSE LET s == OuterHandler(ImportBody(St(d, st, FALSE), nd), nd)
         IN  [db |-> s.db, stats |-> s.stats, escaped |-> FALSE]

\* ------------------------------------------------------------ the splitter

\* one <img src="data:image/<format>;base64,..."> of a note's HTML: its
\* format, the number of bytes its data decodes to, whether it decodes
Match(fmt, n, ok) == [format |-> fmt, bytes |-> n, ok |-> ok]

\* split_individual.extract_images: the dict appended for match idx
SplitterImage(nid, m, idx) ==
    [t |-> "obj",
     filename |-> nid \o "_img_" \o ToString(idx) \o "." \o m.format,
     path |-> NoPath, format |-> m.format, size |-> -1,
     relative_path |-> Path("images", nid \o "_img_" \o ToString(idx) \o "." \o m.format),
     size_bytes |-> m.bytes]

RECURSIVE ExtractLoop(_, _, _)
\* for idx, match in enumerate(matches, 1): a match that does not decode
\* is reported and left out
ExtractLoop(nid, matches, idx) ==
    IF matches = <<>> THEN <<>>
    ELSE (IF Head(matches).ok THEN <<SplitterImage(nid, Head(matches), idx)>> ELSE <<>>)
         \o ExtractLoop(nid, Tail(matches), idx + 1)

\* split_individual.extract_images(html_content, note_id, output_dir):
\* the list stored under extracted_data.images
extract_images(nid, matches) == ExtractLoop(nid, matches, 1)

\* ------------------------------------------------------------ the input

\* a file json.load cannot read
Unreadable == [Base(Absent) EXCEPT !.kind = "unreadable"]

\* a file holding JSON that is no object (a list)
NonDict == [Base(Absent) EXCEPT !.kind = "nondict"]

\* a note without note_id
NoId ==
    [Base(Absent) EXCEPT !.title = "T0",
       !.extracted_data = [shape |-> "dict", links |-> JList(<<"u1">>), images |-> JAbsent]]

\* a note whose note_id is the empty string
EmptyId == [Base("") EXCEPT !.title = "T0"]

\* a complete note: every header field, the same URL as a flat and as a
\* categorized link, and one child of every kind
A1 ==
    [Base("n1") EXCEPT
       !.title = "T1", !.folder = "Work", !.account = "iCloud", !.id = "c1",
       !.status = "keep",
       !.created = DateStr(<<Weekday, Month, Day, Year, At, Time(21, 59, 6)>>),
       !.modified = DateStr(<<Month, Day, Year, At, Time(9, 59, 6), Ampm(1)>>),
       !.categories = JList(<<"work">>),
       !.extracted_data = [shape |-> "dict", links |-> JList(<<"u1">>),
                           images |-> JList(<<ImgStr("a.png")>>)],
       !.analysis = [NoAnalysis EXCEPT
           !.summary = "s", !.plain_text = Text(5),
           !.tasks = JList(<<Str("Call Bob")>>),
           !.ideas = JList(<<Obj("idea")>>),
           !.projects = JList(<<Obj(Absent)>>),
           !.links_categorized =
               [shape |-> "dict",
                items |-> <<[link_type |-> "youtube", links |-> JList(<<"u1">>)]>>]]]

\* A1 with a malformed child: a category of links_categorized maps to null
A1bad ==
    [A1 EXCEPT !.analysis.links_categorized.items =
        Append(@, [link_type |-> "video", links |-> JNull])]

\* a second note: no header field but note_id, no external id, a created
\* string that is no date, and the same filename as an image object and
\* as a bare string
B2 ==
    [Base("n2") EXCEPT
       !.created = DateStr(<<Word>>),
       !.extracted_data = [shape |-> "dict", links |-> JList(<<"u1", "u2">>),
                           images |-> JList(<<ImgObj("b.png", Path("pics", "b.png"), "png", 7),
                                              ImgStr("b.png"), ImgStr("c.png")>>)],
       !.analysis = [NoAnalysis EXCEPT !.tasks = JList(<<Obj("t2"), Str("t2")>>)]]

\* another record for note n1, with other values and no external id
C1 ==
    [Base("n1") EXCEPT
       !.title = "T2", !.account = "Gmail",
       !.created = DateStr(<<IsoDate>>),
       !.modified = DateStr(<<Weekday, IsoDate>>),
       !.extracted_data = [shape |-> "dict", links |-> JList(<<"u2">>), images |-> JAbsent]]

\* another record for note n2, with the external id of A1, the account
\* of C1 and the images the splitter extracted from two <img> tags, the
\* first of which did not decode
D2 ==
    [Base("n2") EXCEPT !.folder = "Home", !.status = "analyzed", !.id = "c1",
       !.account = "Gmail",
       !.created = DateStr(<<Mon, Day, Year, At, Time(25, 0, 0)>>),
       !.modified = DateStr(<<IsoDate, Time(21, 59, 6)>>),
       !.categories = JList(<<"home", "home">>),
       !.extracted_data =
           [shape |-> "dict", links |-> JAbsent,
            images |-> JList(extract_images("n2",
                          <<Match("gif", 0, FALSE), Match("png", 7, TRUE)>>))]]

\* the contents a note file may have
Records == {Unreadable, NonDict, NoId, EmptyId, A1, A1bad, B2, C1, D2}

\* the most files individual_notes/ holds
MaxFiles == 3

\* the number of files between two periodic commits of the import loop
\* (100 in main), brought down to the size of the directories
CommitEvery == 2

RECURSIVE SeqsUpTo(_, _)
\* the sequences over S of length at most n
SeqsUpTo(S, n) ==
    IF n = 0 THEN {<<>>}
    ELSE LET shorter == SeqsUpTo(S, n - 1)
         IN  shorter \cup {Append(q, x) : q \in {r \in shorter : Len(r) = n - 1}, x \in S}

\* ------------------------------------------------------------ main

VARIABLES
    files,      \* json_files: the contents of the note_*.json files, in glob order
    idx,        \* the number of files the import loop has handled
    pc,         \* the phase of main
    db,         \* the store
    stats,      \* db.stats
    report,     \* the result of generate_statistics
    rerun,      \* this run started on the store an earlier run left
    prev,       \* the store as the previous run closed it
    touched,    \* a Note row was deleted since the previous run closed
    durable,    \* notes.db as the last commit left it
    conn        \* db.conn: whether it is open, and its foreign_keys pragma

vars == <<files, idx, pc, db, stats, report, rerun, prev, touched, durable, conn>>

\* no connection: before connect and after close
NoConn == [open |-> FALSE, foreign_keys |-> FALSE]

NoReport ==
    [total_notes |-> -1, total_links |-> -1, total_images |-> -1,
     total_categories |-> -1, total_tasks |-> -1, total_ideas |-> -1,
     total_projects |-> -1,
     date_ranges |-> [earliest_created |-> NoDatetime, latest_created |-> NoDatetime,
                      earliest_modified |-> NoDatetime, latest_modified |-> NoDatetime]]

Init ==
    /\ files \in SeqsUpTo(Records, MaxFiles)
    /\ idx = 0
    /\ pc = "start"
    /\ db = EmptyDb
    /\ stats = EmptyStats
    /\ report = NoReport
    /\ rerun = FALSE
    /\ prev = db
    /\ touched = FALSE
    /\ durable = db
    /\ conn = NoConn

\* main up to db.connect(): without a note file the run ends (sys.exit(1))
\* before the store is opened; else the connection is opened
Start ==
    /\ pc = "start"
    /\ IF files = <<>>
       THEN pc' = "exit" /\ conn' = conn
       ELSE pc' = "schema"
            /\ conn' = [open |-> TRUE, foreign_keys |-> connect.foreign_keys]
    /\ UNCHANGED <<files, idx, db, stats, report, rerun, prev, touched, durable>>

\* db.create_schema(): the tables, then commit; an exception ends the run
\* and the open transaction is rolled back
CreateSchema ==
    /\ pc = "schema"
    /\ LET s == create_schema(db, stats)
       IN  /\ db' = IF s.exc THEN durable ELSE s.db
           /\ durable' = IF s.exc THEN durable ELSE s.db
           /\ pc' = IF s.exc THEN "crashed" ELSE "import"
    /\ UNCHANGED <<files, idx, stats, report, rerun, prev, touched, conn>>

\* "except (OSError, json.JSONDecodeError)": only a failed read is caught
MainCatches_ReadOnly(kind) == kind = "read"

\* "except Exception" around the per-file step: every exception is caught
MainCatches(kind) == kind \in {"read", "import"}

\* the body of the import loop for one file: open and json.load, then
\* import_note; an exception is logged as "Failed to read <file>".
\* crashed: the exception leaves the loop
LoopBody(d, st, nd) ==
    LET r == import_note(d, st, nd)
        failed == [db |-> d,
                   stats |-> LogError(St(d, st, FALSE), "failed_read", NullV).stats,
                   crashed |-> FALSE]
        abort == [db |-> d, stats |-> st, crashed |-> TRUE]
    IN  IF nd.kind = "unreadable"
        THEN IF MainCatches("read") THEN failed ELSE abort
        ELSE IF r.escaped
        THEN IF MainCatches("import") THEN failed ELSE abort
        ELSE [db |-> r.db, stats |-> r.stats, crashed |-> FALSE]

\* a commit inside import_note, after the Note row: what it makes durable
PeriodicCommit_AfterNoteRow(d, st, nd) ==
    IF nd.kind = "dict" /\ ~Falsy(nd.note_id)
    THEN InsertNote(St(d, st, FALSE), nd).db
    ELSE d

\* "if idx % 100 == 0: db.conn.commit()" stands before the file is read:
\* what it makes durable is the store the earlier iterations left
PeriodicCommit(d, st, nd) == d

\* one iteration of "for idx, json_file in enumerate(json_files, 1)": the
\* periodic commit, then the body
ImportFile ==
    /\ pc = "import"
    /\ idx < Len(files)
    /\ LET r == LoopBody(db, stats, files[idx + 1])
       IN  /\ db' = r.db
           /\ stats' = r.stats
           /\ pc' = IF r.crashed THEN "crashed" ELSE "import"
    /\ durable' = IF (idx + 1) % CommitEvery = 0
                  THEN PeriodicCommit(db, stats, files[idx + 1])
                  ELSE durable
    /\ idx' = idx + 1
    /\ UNCHANGED <<files, report, rerun, prev, touched, conn>>

\* the statements after the loop when they stand in its body: they run
\* once a file was handled
LoopDone_InBody(k, n) == k >= 1

\* "for idx, json_file in enumerate(json_files, 1)" is exhausted when each
\* of the n files was handled
LoopDone(k, n) == k = n

\* the loop is over: db.create_indexes(), which commits
CreateIndexes ==
    /\ pc = "import"
    /\ LoopDone(idx, Len(files))
    /\ db' = create_indexes(db)
    /\ durable' = db'
    /\ pc' = "lookup"
    /\ UNCHANGED <<files, idx, stats, report, rerun, prev, touched, conn>>

\* SELECT account, COUNT(*) FROM notes GROUP BY account
AccountGroups(d) ==
    {[account_name |-> a,
      note_count |-> Cardinality({i \in 1..Len(d.notes) : d.notes[i].account = a})] :
        a \in {n.account : n \in Rows(d.notes)}}

\* SELECT folder, account, COUNT(*) FROM notes GROUP BY folder, account
FolderGroups(d) ==
    {[folder_name |-> g[1], account_name |-> g[2],
      note_count |-> Cardinality({i \in 1..Len(d.notes) :
                        d.notes[i].folder = g[1] /\ d.notes[i].account = g[2]})] :
        g \in {<<n.folder, n.account>> : n \in Rows(d.notes)}}

\* INSERT OR REPLACE of every group: the row of a group already present
\* is replaced by the group's present count
populate_lookup_tables_Replace(d) ==
    [d EXCEPT
       !.accounts = {r \in @ : \A g \in AccountGroups(d) :
                                  g.account_name # r.account_name}
                    \cup AccountGroups(d),
       !.folders = {r \in @ : \A g \in FolderGroups(d) :
                                 g.folder_name # r.folder_name
                                 \/ g.account_name # r.account_name}
                   \cup FolderGroups(d)]

\* populate_lookup_tables: INSERT OR IGNORE of every group
populate_lookup_tables(d) ==
    [d EXCEPT
       !.accounts = @ \cup {g \in AccountGroups(d) :
                        \A r \in d.accounts : r.account_name # g.account_name},
       !.folders = @ \cup {g \in FolderGroups(d) :
                        \A r \in d.folders : r.folder_name # g.folder_name
                                            \/ r.account_name # g.account_name}]

\* db.populate_lookup_tables(), which commits
PopulateLookupTables ==
    /\ pc = "lookup"
    /\ db' = populate_lookup_tables(db)
    /\ durable' = db'
    /\ pc' = "report"
    /\ UNCHANGED <<files, idx, stats, report, rerun, prev, touched, conn>>

\* the text SQLite stores for a datetime, 'YYYY-MM-DD HH:MM:SS', as the
\* numbers its order goes by
IsoFormat(v) == v.date \o v.time

\* the order of two such texts: the first place where they differ decides
Before(a, b) ==
    \E i \in 1..6 : /\ \A j \in 1..(i - 1) : IsoFormat(a)[j] = IsoFormat(b)[j]
                    /\ IsoFormat(a)[i] < IsoFormat(b)[i]

\* MIN(column) and MAX(column) over rows: NULL values are passed over, and
\* the result is NULL when no value is left
Min(values) ==
    LET present == {v \in values : v.shape # "null"}
    IN  IF present = {} THEN NoDatetime
        ELSE CHOOSE v \in present : \A w \in present : ~Before(w, v)

Max(values) ==
    LET present == {v \in values : v.shape # "null"}
    IN  IF present = {} THEN NoDatetime
        ELSE CHOOSE v \in present : \A w \in present : ~Before(v, w)

\* "FROM notes WHERE created_datetime IS NOT NULL": the rows the one query
\* takes the minimum and maximum of both columns over
DateRangeRows(d) ==
    {n \in Rows(d.notes) : n.created_datetime.shape # "null"}

\* generate_statistics: the SELECT COUNT(*) of every entity table, and the
\* date ranges
generate_statistics(d) ==
    [total_notes |-> Len(d.notes), total_links |-> Len(d.extracted_links),
     total_images |-> Len(d.extracted_images),
     total_categories |-> Len(d.note_categories),
     total_tasks |-> Len(d.extracted_tasks), total_ideas |-> Len(d.extracted_ideas),
     total_projects |-> Len(d.extracted_projects),
     date_ranges |->
       [earliest_created |->
          Min({n.created_datetime : n \in DateRangeRows(d)}),
        latest_created |->
          Max({n.created_datetime : n \in DateRangeRows(d)}),
        earliest_modified |->
          Min({n.modified_datetime : n \in DateRangeRows(d)}),
        latest_modified |->
          Max({n.modified_datetime : n \in DateRangeRows(d)})]]

GenerateStatistics ==
    /\ pc = "report"
    /\ report' = generate_statistics(db)
    /\ pc' = "close"
    /\ UNCHANGED <<files, idx, db, stats, rerun, prev, touched, durable, conn>>

\* db.close(): commit and close
Close ==
    /\ pc = "close"
    /\ pc' = "done"
    /\ durable' = db
    /\ conn' = NoConn
    /\ prev' = db
    /\ touched' = FALSE
    /\ UNCHANGED <<files, idx, db, stats, report, rerun>>

\* the application using the finished store deletes a note
DeleteNote ==
    /\ pc = "done"
    /\ \E n \in Rows(db.notes) : db' = DeleteFromNotes(db, n.note_id)
    /\ durable' = db'
    /\ touched' = TRUE
    /\ UNCHANGED <<files, idx, pc, stats, report, rerun, prev, conn>>

\* main() is run again over the same individual_notes/ and the same
\* notes.db, after a run that ended, was killed, or found no note file
RunAgain ==
    /\ pc \in {"done", "killed", "exit"}
    /\ pc' = "start"
    /\ idx' = 0
    /\ db' = durable
    /\ stats' = EmptyStats
    /\ report' = NoReport
    /\ rerun' = TRUE
    /\ UNCHANGED <<files, prev, touched, durable, conn>>

Next ==
    \/ Start
    \/ CreateSchema
    \/ ImportFile
    \/ CreateIndexes
    \/ PopulateLookupTables
    \/ GenerateStatistics
    \/ Close
    \/ DeleteNote
    \/ RunAgain

Spec == Init /\ [][Next]_vars

\* ------------------------------------------------------------ a growing directory

\* the notes of a directory that grows between runs
LookupRecords == {A1, B2, C1, D2}

\* the sequence with x put in at position i
InsertAt(q, i, x) == SubSeq(q, 1, i - 1) \o <<x>> \o SubSeq(q, i, Len(q))

\* main on a directory of notes and an empty store
LookupInit ==
    /\ files \in SeqsUpTo(LookupRecords, MaxFiles)
    /\ idx = 0
    /\ pc = "start"
    /\ db = EmptyDb
    /\ stats = EmptyStats
    /\ report = NoReport
    /\ rerun = FALSE
    /\ prev = db
    /\ touched = FALSE
    /\ durable = db
    /\ conn = NoConn

\* between two runs a note file is added to individual_notes/; glob may
\* list it at any place
NewFile ==
    /\ pc \in {"done", "exit"}
    /\ Len(files) < MaxFiles
    /\ \E r \in LookupRecords, i \in 1..(Len(files) + 1) : files' = InsertAt(files, i, r)
    /\ UNCHANGED <<idx, pc, db, stats, report, rerun, prev, touched, durable, conn>>

LookupNext ==
    \/ Next
    \/ NewFile

LookupSpec == LookupInit /\ [][LookupNext]_vars

\* ------------------------------------------------------------ an interrupted run

\* the notes of a directory whose import is interrupted
CrashRecords == {A1, A1bad, B2, C1, D2, NonDict}

\* a connection in autocommit mode: every statement is durable at once
Rollback_Autocommit(working, committed) == working

\* sqlite3.connect with the default isolation level: the statements since
\* the last commit are one open transaction, which is rolled back when the
\* process ends without committing it
Rollback(working, committed) == committed

\* main on a directory of notes and an empty store
CrashInit ==
    /\ files \in SeqsUpTo(CrashRecords, MaxFiles)
    /\ idx = 0
    /\ pc = "start"
    /\ db = EmptyDb
    /\ stats = EmptyStats
    /\ report = NoReport
    /\ rerun = FALSE
    /\ prev = db
    /\ touched = FALSE
    /\ durable = db
    /\ conn = NoConn

\* the run is interrupted (KeyboardInterrupt, which no "except Exception"
\* catches, or the process is killed) while the connection is open: the
\* process ends without commit or close.  stats keeps what the killed run
\* had counted
Interrupt ==
    /\ pc \in {"schema", "import", "lookup", "report", "close"}
    /\ pc' = "killed"
    /\ durable' = Rollback(db, durable)
    /\ db' = durable'
    /\ conn' = NoConn
    /\ UNCHANGED <<files, idx, stats, report, rerun, prev, touched>>

CrashNext ==
    \/ Next
    \/ Interrupt

CrashSpec == CrashInit /\ [][CrashNext]_vars

\* ------------------------------------------------------------ the dates

\* date strings: with or without the weekday; a date in the long, the
\* short, a day-first or the ISO form, a word, or nothing; then nothing,
\* " at " and a 24-hour time, a 12-hour time, an hour out of range, a
\* 24-hour time with PM, a time without " at ", or " at " twice
Prefixes == {<<>>, <<Weekday>>}

DateParts ==
    {<<Month, Day, Year>>, <<Mon, Day, Year>>, <<Day, Month, Year>>,
     <<IsoDate>>, <<Word>>, <<>>}

TimeParts ==
    {<<>>, <<At, Time(21, 59, 6)>>, <<At, Time(9, 59, 6), Ampm(1)>>,
     <<At, Time(12, 5, 6), Ampm(0)>>, <<At, Time(25, 0, 0)>>,
     <<At, Time(21, 59, 6), Ampm(1)>>, <<Time(21, 59, 6)>>,
     <<At, Word, At, Time(21, 59, 6)>>}

DateStrings == {p \o d \o t : p \in Prefixes, d \in DateParts, t \in TimeParts}

\* the values "created" and "modified" may have
DateFields == {DateStr(t) : t \in DateStrings} \cup {NoDate, NullDate}

\* a note with the two date fields
Dated(c, m) == [Base("n1") EXCEPT !.title = "T1", !.id = "c1", !.created = c, !.modified = m]

\* main on a directory holding one note, whatever its date fields
DateInit ==
    /\ \E c \in DateFields, m \in DateFields : files = <<Dated(c, m)>>
    /\ idx = 0
    /\ pc = "start"
    /\ db = EmptyDb
    /\ stats = EmptyStats
    /\ report = NoReport
    /\ rerun = FALSE
    /\ prev = db
    /\ touched = FALSE
    /\ durable = db
    /\ conn = NoConn

DateSpec == DateInit /\ [][Next]_vars

\* ------------------------------------------------------------ properties

\* the loop is about to handle a file
Stepping == pc = "import" /\ idx < Len(files)

\* the record the loop handles next
Cur == files[idx + 1]

\* a JSON object carrying a usable note_id
HasNoteId(nd) == nd.kind = "dict" /\ nd.note_id \notin {Absent, NullV, ""}

\* the store holds a Note row for the note_id
NoteExists(d, nid) == \E r \in Rows(d.notes) : r.note_id = nid

\* q is p with entries appended
Extends(q, p) == Len(q) >= Len(p) /\ SubSeq(q, 1, Len(p)) = p

\* a child list of the record is null where the importer iterates it
Malformed(nd) ==
    \/ nd.extracted_data.links.shape = "null"
    \/ nd.extracted_data.images.shape = "null"
    \/ nd.categories.shape = "null"
    \/ \E i \in 1..Len(nd.analysis.links_categorized.items) :
          nd.analysis.links_categorized.items[i].links.shape = "null"

\* reading or importing the record fails: the file is unreadable or no
\* JSON object, the note_id is missing or taken, or a child is malformed
RecordFails(d, nd) ==
    \/ ~HasNoteId(nd)
    \/ NoteExists(d, nd.note_id)
    \/ Malformed(nd)

\* C1: the import loop handles every record: whatever the record (valid,
\* without note_id, duplicate, malformed children, unreadable), the step
\* ends with the loop at the next record and no exception leaving it, and
\* a failure of the record only appends to the run's error list
C1_EveryRecordIsProcessed ==
    [][Stepping =>
         /\ idx' = idx + 1
         /\ pc' = "import"
         /\ Extends(stats'.errors, stats.errors)
         /\ RecordFails(db, Cur) => Len(stats'.errors) > Len(stats.errors)]_vars

\* C1 witness: an unreadable file and a file that is no JSON object were
\* each logged, and the record after them was imported
C1_Witness ==
    /\ ~rerun /\ pc = "import" /\ idx = 3
    /\ files[1].kind = "unreadable" /\ files[2].kind = "nondict"
    /\ HasNoteId(files[3]) /\ NoteExists(db, files[3].note_id)
    /\ Len(stats.errors) = 2 /\ stats.notes_imported = 1

\* C2: import_note on a record whose note_id is absent or empty appends
\* exactly one error entry and leaves every table and every counter as
\* they were
C2_MissingNoteIdOnlyLogs ==
    [][(Stepping /\ Cur.kind = "dict" /\ Cur.note_id \in {Absent, ""}) =>
         /\ db' = db
         /\ stats' = [stats EXCEPT !.errors =
                         Append(@, [kind |-> "missing_note_id", note_id |-> NullV])]]_vars

\* C2 witness: a record with an empty note_id was handled on a store that
\* already holds a note with children
C2_Witness ==
    /\ pc = "import" /\ idx = 2 /\ ~rerun
    /\ files[2].kind = "dict" /\ files[2].note_id = ""
    /\ Len(db.notes) = 1 /\ Len(db.extracted_links) > 0
    /\ stats.notes_imported = 1
    /\ stats.errors = <<[kind |-> "missing_note_id", note_id |-> NullV]>>

\* the value a header field is to be stored with
Stored(v, default) == IF v = Absent THEN default ELSE v

DistinctNotes ==
    /\ \A i \in 1..Len(files) : HasNoteId(files[i])
    /\ \A i, j \in 1..Len(files) : i # j => files[i].note_id # files[j].note_id

\* C4: the external identifier is optional: of records with pairwise
\* distinct note_ids, two or more of them without "id", every record
\* without "id" is imported as a Note row
C4_NotesWithoutIdAllImported ==
    (/\ ~rerun /\ pc = "done" /\ ~touched
     /\ DistinctNotes
     /\ Cardinality({i \in 1..Len(files) : files[i].id = Absent}) >= 2) =>
        \A i \in 1..Len(files) :
            files[i].id = Absent => NoteExists(db, files[i].note_id)

\* C5: a record whose note_id already has a Note row overwrites nothing:
\* the notes table is unchanged, one error entry naming the note_id is
\* added, notes_imported stays, and the loop goes on to the next record
C5_DuplicateNoteIdRejected ==
    [][(Stepping /\ HasNoteId(Cur) /\ NoteExists(db, Cur.note_id)) =>
         /\ db'.notes = db.notes
         /\ stats'.errors =
              Append(stats.errors, [kind |-> "failed_import", note_id |-> Cur.note_id])
         /\ stats'.notes_imported = stats.notes_imported
         /\ idx' = idx + 1 /\ pc' = "import"]_vars

\* C5 witness: a second record for n1, with other values, was rejected and
\* the record after it was imported
C5_Witness ==
    /\ ~rerun /\ idx = 3
    /\ files[1] = A1 /\ files[2] = C1 /\ files[3] = B2
    /\ \E r \in Rows(db.notes) : r.note_id = "n1" /\ r.title = "T1"
    /\ NoteExists(db, "n2")
    /\ stats.notes_imported = 2
    /\ stats.errors = <<[kind |-> "failed_import", note_id |-> "n1"]>>

\* the Link, Image and Category rows of a store
ChildSets(d) ==
    <<Rows(d.extracted_links), Rows(d.extracted_images), Rows(d.note_categories)>>

\* C6: a second pass over the same records leaves the sets, and the
\* counts, of Link, Image and Category rows as the first pass left them:
\* they are the same at every point of the second pass and after it
C6_SecondPassKeepsChildRows ==
    (rerun /\ ~touched) =>
        /\ ChildSets(db) = ChildSets(prev)
        /\ Len(db.extracted_links) = Len(prev.extracted_links)
        /\ Len(db.extracted_images) = Len(prev.extracted_images)
        /\ Len(db.note_categories) = Len(prev.note_categories)

\* C6 witness: a second pass over records with links, images and
\* categories is finished, every record having been rejected
C6_Witness ==
    /\ rerun /\ ~touched /\ pc = "done"
    /\ Len(files) = 2 /\ Len(db.notes) = 2
    /\ Len(db.extracted_links) >= 2
    /\ Len(db.extracted_images) >= 2
    /\ Len(db.note_categories) >= 1
    /\ stats.notes_imported = 0 /\ Len(stats.errors) = 2

\* the Link, Image and Category rows of one note
ChildSetsOf(d, nid) ==
    <<Rows(Of(d.extracted_links, nid)), Rows(Of(d.extracted_images, nid)),
      Rows(Of(d.note_categories, nid))>>

\* the store a complete import of the record alone produces
Complete(nd) == import_note(EmptyDb, EmptyStats, nd).db

\* the note of the record is partially imported: its Note row exists and
\* its Link, Image and Category rows are some, not all, of the record's
Partial(d, nd) ==
    /\ NoteExists(d, nd.note_id)
    /\ \A k \in 1..3 :
          ChildSetsOf(d, nd.note_id)[k] \subseteq ChildSetsOf(Complete(nd), nd.note_id)[k]
    /\ ChildSetsOf(d, nd.note_id) # ChildSetsOf(Complete(nd), nd.note_id)

\* C7: re-importing a partially imported note converges: afterwards the
\* store holds exactly the Link, Image and Category rows a complete
\* import of the record produces, none of them twice
C7_ReimportCompletesPartialNote ==
    [][(Stepping /\ HasNoteId(Cur) /\ ~Malformed(Cur) /\ Partial(db, Cur)) =>
         /\ ChildSetsOf(db', Cur.note_id) = ChildSetsOf(Complete(Cur), Cur.note_id)
         /\ Len(Of(db'.extracted_links, Cur.note_id))
              = Cardinality(Rows(Of(db'.extracted_links, Cur.note_id)))]_vars

\* the record, not yet in the store, carries url both in its flat link
\* list and under link_type in links_categorized
SameUrlTwice(d, nd, url, link_type) ==
    /\ HasNoteId(nd) /\ ~NoteExists(d, nd.note_id)
    /\ nd.extracted_data.links.shape = "list"
    /\ \E i \in 1..Len(nd.extracted_data.links.items) :
          nd.extracted_data.links.items[i] = url
    /\ \E g \in 1..Len(nd.analysis.links_categorized.items) :
          LET group == nd.analysis.links_categorized.items[g]
          IN  /\ group.link_type = link_type
              /\ group.links.shape = "list"
              /\ \E i \in 1..Len(group.links.items) : group.links.items[i] = url

\* the link types of the rows the store holds for a URL of a note
TypesOf(d, nid, url) ==
    LET rows == SelectSeq(d.extracted_links,
                          LAMBDA row : row.note_id = nid /\ row.url = url)
    IN  [i \in 1..Len(rows) |-> rows[i].link_type]

Urls == {"u1", "u2"}

LinkTypes == {"youtube", "video"}

\* C8 as stated: a URL given both in the flat list and under a category
\* yields one untyped and one typed Link row
C8_OneUntypedAndOneTypedRow ==
    [][\A url \in Urls, link_type \in LinkTypes :
         (Stepping /\ SameUrlTwice(db, Cur, url, link_type)
            /\ stats'.notes_imported = stats.notes_imported + 1) =>
           /\ Len(TypesOf(db', Cur.note_id, url)) = 2
           /\ {TypesOf(db', Cur.note_id, url)[i] : i \in 1..2} = {NullV, link_type}]_vars

\* C8 amended: a URL given both in the flat list and under a category
\* yields exactly one Link row, the untyped one: the categorized entry is
\* ignored as a duplicate of (note_id, url)
C8_OnlyTheUntypedRow ==
    [][\A url \in Urls, link_type \in LinkTypes :
         (Stepping /\ SameUrlTwice(db, Cur, url, link_type)
            /\ stats'.notes_imported = stats.notes_imported + 1) =>
           TypesOf(db', Cur.note_id, url) = <<NullV>>]_vars

\* C8 witness: A1, which gives u1 both ways, was imported
C8_Witness ==
    /\ ~rerun /\ idx = 1 /\ files[1] = A1
    /\ SameUrlTwice(EmptyDb, A1, "u1", "youtube")
    /\ NoteExists(db, "n1")
    /\ TypesOf(db, "n1", "u1") = <<NullV>>
    /\ stats.links_imported = 2

\* the end-to-end input: two files, one a note without note_id, the other
\* a valid note with one URL given untyped and typed and the task
\* "Call Bob" as a bare string
EndToEndInput ==
    /\ Len(files) = 2
    /\ \E i, j \in 1..2 :
         /\ i # j
         /\ files[i].kind = "dict" /\ files[i].note_id = Absent
         /\ \E url \in Urls, link_type \in LinkTypes :
              /\ SameUrlTwice(EmptyDb, files[j], url, link_type)
              /\ files[j].extracted_data.links.items = <<url>>
              /\ files[j].analysis.links_categorized.items =
                    <<[link_type |-> link_type, links |-> JList(<<url>>)]>>
         /\ files[j].analysis.tasks = JList(<<Str("Call Bob")>>)

\* the first run on an empty store is finished
FirstRunDone == ~rerun /\ ~touched /\ pc = "done"

Children(d) ==
    <<d.extracted_links, d.extracted_images, d.note_categories, d.analysis,
      d.extracted_tasks, d.extracted_ideas, d.extracted_projects>>

\* C10: deleting a Note row removes every Link, Image, Category,
\* Analysis, Task, Idea and Project row of that note and no child row of
\* another note
C10_DeleteCascades ==
    [][(pc = "done" /\ db'.notes # db.notes) =>
         \E n \in Rows(db.notes) :
           /\ db'.notes = SelectSeq(db.notes, LAMBDA row : row.note_id # n.note_id)
           /\ \A k \in 1..7 :
                Children(db')[k] =
                  SelectSeq(Children(db)[k], LAMBDA row : row.note_id # n.note_id)]_vars

\* C10 witness: n1, with a child in each of the seven tables, was deleted
\* and n2 keeps its links
C10_Witness ==
    /\ pc = "done" /\ touched
    /\ NoteExists(prev, "n1") /\ NoteExists(prev, "n2")
    /\ \A k \in 1..7 : Of(Children(prev)[k], "n1") # <<>>
    /\ ~NoteExists(db, "n1") /\ NoteExists(db, "n2")
    /\ \A k \in 1..7 : Of(Children(db)[k], "n1") = <<>>
    /\ Of(db.extracted_links, "n2") = Of(prev.extracted_links, "n2")
    /\ Of(db.extracted_links, "n2") # <<>>

\* a child list, with an empty list in the place of a null
Mended(list) == IF list.shape = "null" THEN JList(<<>>) ELSE list

\* the record with every null child list replaced by an empty list: the
\* well-formed children are those of the record itself
Repaired(nd) ==
    LET groups == nd.analysis.links_categorized.items
    IN  [nd EXCEPT
           !.categories = Mended(@),
           !.extracted_data.links = Mended(@),
           !.extracted_data.images = Mended(@),
           !.analysis.tasks = Mended(@),
           !.analysis.ideas = Mended(@),
           !.analysis.projects = Mended(@),
           !.analysis.links_categorized.items =
               [i \in 1..Len(groups) |->
                   [link_type |-> groups[i].link_type,
                    links |-> Mended(groups[i].links)]]]

\* C11: a child of the wrong shape neither undoes the Note row nor keeps
\* the note's other children out: a record whose Note row is inserted
\* ends with the Note row in place and with every Link, Image, Category,
\* Analysis, Task, Idea and Project row its well-formed children produce
C11_ChildFailureSparesSiblings ==
    [][(Stepping /\ HasNoteId(Cur) /\ ~NoteExists(db, Cur.note_id)
          /\ stats'.notes_imported = stats.notes_imported + 1) =>
         /\ NoteExists(db', Cur.note_id)
         /\ \A k \in 1..7 :
              Of(Children(db')[k], Cur.note_id)
                = Of(Children(Complete(Repaired(Cur)))[k], Cur.note_id)]_vars

\* the date formats the parser documents: the macOS form, with or without
\* the weekday, the month long or short, the time on the 24-hour or the
\* 12-hour clock; and the ISO date, with or without a time
WellFormedDate(t) ==
    LET body == IF t # <<>> /\ t[1].k = "weekday" THEN Tail(t) ELSE t
    IN  \/ /\ Len(body) \in {5, 6}
           /\ body[1].k \in {"month", "mon"}
           /\ body[2].k = "day" /\ body[3].k = "year" /\ body[4].k = "at"
           /\ body[5].k = "time"
           /\ \/ Len(body) = 5 /\ body[5].v[1] <= 23
              \/ Len(body) = 6 /\ body[6].k = "ampm" /\ body[5].v[1] \in 1..12
        \/ /\ Len(t) \in {1, 2}
           /\ t[1].k = "isodate"
           /\ Len(t) = 2 => (t[2].k = "time" /\ t[2].v[1] <= 23)

\* nothing but the date fields stands in the way of the Note row: the
\* note_id and the external id are free, neither date field is null
DatesDecide(d, nd) ==
    /\ HasNoteId(nd) /\ ~NoteExists(d, nd.note_id)
    /\ \A r \in Rows(d.notes) : r.coredata_id # Get(nd.id, "")
    /\ nd.created.shape # "null" /\ nd.modified.shape # "null"

\* C12: whatever string created and modified hold, the Note row is
\* inserted; created_raw and modified_raw hold the string as given,
\* whether it parses or not, and the parsed timestamp is null exactly when
\* the string is none of the date formats
C12_UnparseableDateKeepsRawString ==
    [][(Stepping /\ DatesDecide(db, Cur)) =>
         /\ stats'.notes_imported = stats.notes_imported + 1
         /\ Len(Of(db'.notes, Cur.note_id)) = 1
         /\ LET row == Of(db'.notes, Cur.note_id)[1]
            IN  /\ Cur.created.shape = "str" =>
                     /\ row.created_raw = Cur.created
                     /\ row.created_datetime = NoDatetime
                          <=> ~WellFormedDate(Cur.created.tokens)
                /\ Cur.modified.shape = "str" =>
                     /\ row.modified_raw = Cur.modified
                     /\ row.modified_datetime = NoDatetime
                          <=> ~WellFormedDate(Cur.modified.tokens)]_vars

\* C12 witness: a note whose created string is a weekday and an ISO date,
\* which no format takes, and whose modified string is a 12-hour macOS
\* date, was imported without an error
C12_Witness ==
    /\ ~rerun /\ pc = "import" /\ idx = 1
    /\ files[1].created = DateStr(<<Weekday, IsoDate>>)
    /\ files[1].modified = DateStr(<<Month, Day, Year, At, Time(9, 59, 6), Ampm(1)>>)
    /\ stats.errors = <<>> /\ stats.notes_imported = 1
    /\ Len(db.notes) = 1
    /\ db.notes[1].created_raw = DateStr(<<Weekday, IsoDate>>)
    /\ db.notes[1].created_datetime = NoDatetime
    /\ db.notes[1].modified_raw = files[1].modified
    /\ db.notes[1].modified_datetime = Datetime(<<2025, 11, 8>>, <<21, 59, 6>>)

\* the step imports the record whole: the Note row is inserted and
\* import_note logs no error
ImportsCur ==
    /\ Stepping /\ HasNoteId(Cur)
    /\ stats'.notes_imported = stats.notes_imported + 1
    /\ stats'.errors = stats.errors

\* the entries of extracted_data.images
Images(nd) == nd.extracted_data.images.items

\* the filename the importer reads from an entry
FilenameOf(image) == Get(image.filename, "")

\* no earlier entry of the record has the filename of entry i
FirstOfItsName(nd, i) ==
    \A j \in 1..(i - 1) : FilenameOf(Images(nd)[j]) # FilenameOf(Images(nd)[i])

\* the store holds, for the note, an Image row with these values
HasImage(d, nid, f, path, fmt, size) ==
    \E r \in Rows(d.extracted_images) :
        /\ r.note_id = nid /\ r.filename = f /\ r.relative_path = path
        /\ r.image_format = fmt /\ r.size_bytes = size

\* C13 as stated: every entry of extracted_data.images that is a bare
\* filename F yields an Image row with filename F, empty format, size 0
\* and relative path images/F
C13_BareFilenameYieldsDefaults ==
    [][ImportsCur =>
         \A i \in 1..Len(Images(Cur)) :
            Images(Cur)[i].t = "str" =>
               HasImage(db', Cur.note_id, Images(Cur)[i].filename,
                        Path("images", Images(Cur)[i].filename), "", 0)]_vars

\* C13 amended: a bare filename F that no earlier entry of the note
\* carries yields the Image row with filename F, empty format, size 0 and
\* relative path images/F; a bare filename an earlier entry carries
\* yields no row of its own (the earlier entry's row stands)
C13_FirstBareFilenameYieldsDefaults ==
    [][ImportsCur =>
         \A i \in 1..Len(Images(Cur)) :
            Images(Cur)[i].t = "str" =>
               IF FirstOfItsName(Cur, i)
               THEN HasImage(db', Cur.note_id, Images(Cur)[i].filename,
                             Path("images", Images(Cur)[i].filename), "", 0)
               ELSE \A r \in Rows(Of(db'.extracted_images, Cur.note_id)) :
                       r.filename = Images(Cur)[i].filename => r.extraction_order < i]_vars

\* C13 witness: B2 was imported: its bare filename c.png has the row with
\* the defaults, its bare filename b.png was ignored after the image
\* object b.png
C13_Witness ==
    /\ ~rerun /\ idx = 1 /\ files[1] = B2 /\ stats.errors = <<>>
    /\ stats.images_imported = 3 /\ Len(db.extracted_images) = 2
    /\ HasImage(db, "n2", "c.png", Path("images", "c.png"), "", 0)
    /\ HasImage(db, "n2", "b.png", Path("pics", "b.png"), "png", 7)
    /\ ~HasImage(db, "n2", "b.png", Path("images", "b.png"), "", 0)

\* the relative path and the size an image object gives, under the
\* importer's keys path and size or the splitter's keys relative_path
\* and size_bytes
OwnPath(image) ==
    IF image.path # NoPath THEN image.path
    ELSE IF image.relative_path # NoPath THEN image.relative_path
    ELSE Path("images", FilenameOf(image))

OwnSize(image) ==
    IF image.size # -1 THEN image.size
    ELSE IF image.size_bytes # -1 THEN image.size_bytes
    ELSE 0

\* C14: an image object (the first of its filename in the note) is stored
\* with its own filename, relative path, format and size; for an object
\* the splitter emitted, size_bytes and relative_path are those the
\* splitter recorded
C14_ImageObjectStoredAsGiven ==
    [][ImportsCur =>
         \A i \in 1..Len(Images(Cur)) :
            (Images(Cur)[i].t = "obj" /\ FirstOfItsName(Cur, i)) =>
               HasImage(db', Cur.note_id, FilenameOf(Images(Cur)[i]),
                        OwnPath(Images(Cur)[i]),
                        Get(Images(Cur)[i].format, ""),
                        OwnSize(Images(Cur)[i]))]_vars

\* the record the Note row of a stored child row was imported from
SourceOf(nid, nd) ==
    HasNoteId(nd) /\ nd.note_id = nid /\ \E n \in Rows(db.notes) : n = NoteRow(nd)

\* C15: every stored Image row has as extraction_order the 1-based
\* position, in the image sequence of the record its note was imported
\* from, of the entry with its filename
C15_ExtractionOrderIsPosition ==
    \A r \in Rows(db.extracted_images) :
        \E k \in 1..Len(files) :
            /\ SourceOf(r.note_id, files[k])
            /\ r.extraction_order \in 1..Len(Images(files[k]))
            /\ FilenameOf(Images(files[k])[r.extraction_order]) = r.filename
            /\ FirstOfItsName(files[k], r.extraction_order)

\* C15 witness: of the three image entries of B2 the second was ignored,
\* and the row of the third has extraction_order 3
C15_Witness ==
    /\ NoteExists(db, "n2") /\ \E k \in 1..Len(files) : SourceOf("n2", B2) /\ files[k] = B2
    /\ Len(Of(db.extracted_images, "n2")) = 2
    /\ \E r \in Rows(db.extracted_images) :
          r.note_id = "n2" /\ r.filename = "c.png" /\ r.extraction_order = 3
    /\ \E r \in Rows(db.extracted_images) :
          r.note_id = "n2" /\ r.filename = "b.png" /\ r.extraction_order = 1

\* the content an entry of tasks, ideas or projects is to be stored with
Content(entry) ==
    IF entry.t = "str" THEN entry.text
    ELSE IF entry.text = Absent THEN "" ELSE entry.text

\* the contents of a list of entries, in order
Contents(list) == [i \in 1..Len(list.items) |-> Content(list.items[i])]

\* the contents of the rows a table holds for a note, in insertion order
ColumnOf(table, nid, column) ==
    [i \in 1..Len(Of(table, nid)) |-> Of(table, nid)[i][column]]

\* tasks, ideas and projects are lists of bare strings and objects
EntriesWellFormed(nd) ==
    \A list \in {nd.analysis.tasks, nd.analysis.ideas, nd.analysis.projects} :
        /\ list.shape # "null"
        /\ \A i \in 1..Len(list.items) : list.items[i].t \in {"str", "obj"}

\* C16: when a record is imported, each entry of tasks, ideas and
\* projects yields one row, in order, whose content is the bare string,
\* or the text / name field of the object, or the empty string when the
\* object lacks the field; no error is logged for it
C16_EntryYieldsOneRow ==
    [][(Stepping /\ HasNoteId(Cur) /\ ~Malformed(Cur) /\ EntriesWellFormed(Cur)
          /\ stats'.notes_imported = stats.notes_imported + 1) =>
         /\ ColumnOf(db'.extracted_tasks, Cur.note_id, "task_text")
              = Contents(Cur.analysis.tasks)
         /\ ColumnOf(db'.extracted_ideas, Cur.note_id, "idea_text")
              = Contents(Cur.analysis.ideas)
         /\ ColumnOf(db'.extracted_projects, Cur.note_id, "project_name")
              = Contents(Cur.analysis.projects)
         /\ stats'.errors = stats.errors]_vars

\* C16 witness: A1 was imported: its task is a bare string, its idea an
\* object with text, its project an object without name, stored as ""
C16_Witness ==
    /\ ~rerun /\ idx = 1 /\ files[1] = A1
    /\ A1.analysis.projects.items = <<Obj(Absent)>>
    /\ db.extracted_tasks = <<[note_id |-> "n1", task_text |-> "Call Bob"]>>
    /\ db.extracted_ideas = <<[note_id |-> "n1", idea_text |-> "idea"]>>
    /\ db.extracted_projects = <<[note_id |-> "n1", project_name |-> ""]>>
    /\ stats.projects_imported = 1 /\ stats.errors = <<>>
    /\ Len(db.extracted_images) = 1 /\ Len(db.note_categories) = 1

\* C17: every Note has at most one Analysis row, and has one only if the
\* record it was imported from carries an analysis payload
C17_AtMostOneAnalysisPerNote ==
    \A n \in Rows(db.notes) :
        /\ Len(Of(db.analysis, n.note_id)) <= 1
        /\ Of(db.analysis, n.note_id) # <<>> =>
              \E k \in 1..Len(files) :
                  /\ HasNoteId(files[k]) /\ NoteRow(files[k]) = n
                  /\ files[k].analysis # NoAnalysis

\* C17 witness: a second run over A1 and B2 is finished: n1, imported
\* from A1 with a summary, has its one Analysis row, n2 has none
C17_Witness ==
    /\ rerun /\ pc = "done" /\ files = <<A1, B2>>
    /\ NoteExists(db, "n1") /\ NoteExists(db, "n2")
    /\ Of(db.analysis, "n1") = <<[note_id |-> "n1", summary |-> "s", plain_text_sample |-> 5]>>
    /\ Of(db.analysis, "n2") = <<>>

\* C18 as stated: after a record is imported into a store that held no
\* row for it, the note has an Analysis row if and only if the record
\* carries a non-empty analysis object
C18_AnalysisRowIffPayload ==
    [][ImportsCur =>
         (Of(db'.analysis, Cur.note_id) # <<>> <=> Cur.analysis # NoAnalysis)]_vars

\* the analysis object carries a non-empty summary or a non-empty
\* plain_text
SummaryOrText(nd) ==
    \/ nd.analysis.summary \notin {Absent, NullV, ""}
    \/ nd.analysis.plain_text.shape = "str" /\ nd.analysis.plain_text.len > 0

\* C18 amended: after a record is imported into a store that held no row
\* for it, the note has an Analysis row if and only if the record's
\* analysis carries a non-empty summary or a non-empty plain_text, and
\* then exactly one
C18_AnalysisRowIffSummaryOrText ==
    [][ImportsCur =>
         /\ Of(db'.analysis, Cur.note_id) # <<>> <=> SummaryOrText(Cur)
         /\ Len(Of(db'.analysis, Cur.note_id)) <= 1]_vars

\* C18 witness: A1, whose analysis has a summary, and B2, whose analysis
\* has tasks and neither summary nor plain_text, were imported: n1 has an
\* Analysis row, n2 has its tasks and no Analysis row
C18_Witness ==
    /\ ~rerun /\ idx = 2 /\ files = <<A1, B2>> /\ stats.errors = <<>>
    /\ B2.analysis # NoAnalysis /\ ~SummaryOrText(B2)
    /\ Len(Of(db.analysis, "n1")) = 1
    /\ Of(db.analysis, "n2") = <<>>
    /\ Len(Of(db.extracted_tasks, "n2")) = 2

\* the number of Note rows with the account, and with the folder and
\* account
NotesOfAccount(d, a) == Cardinality({i \in 1..Len(d.notes) : d.notes[i].account = a})

NotesOfFolder(d, f, a) ==
    Cardinality({i \in 1..Len(d.notes) : d.notes[i].folder = f /\ d.notes[i].account = a})

\* C19: when populate_lookup_tables has run, in whatever run, accounts
\* holds exactly one row for every account of the Note rows, with the
\* number of the Notes of that account as note_count, and folders holds
\* exactly one row for every (folder, account) pair, with the number of
\* the Notes of that pair
C19_LookupTablesMirrorNotes ==
    pc = "report" =>
        /\ db.accounts = {[account_name |-> n.account,
                           note_count |-> NotesOfAccount(db, n.account)] :
                             n \in Rows(db.notes)}
        /\ db.folders = {[folder_name |-> n.folder, account_name |-> n.account,
                          note_count |-> NotesOfFolder(db, n.folder, n.account)] :
                            n \in Rows(db.notes)}

\* C20: populate_lookup_tables keeps every accounts row and every folders
\* row as it is, and adds exactly one row, with the present count, for
\* every account and every (folder, account) pair of the Note rows that
\* had no row
C20_PopulateOnlyAddsMissingGroups ==
    [][pc = "lookup" =>
         /\ db.accounts \subseteq db'.accounts
         /\ db.folders \subseteq db'.folders
         /\ db'.accounts \ db.accounts =
              {[account_name |-> n.account,
                note_count |-> NotesOfAccount(db, n.account)] :
                   n \in {m \in Rows(db.notes) :
                            \A r \in db.accounts : r.account_name # m.account}}
         /\ db'.folders \ db.folders =
              {[folder_name |-> n.folder, account_name |-> n.account,
                note_count |-> NotesOfFolder(db, n.folder, n.account)] :
                   n \in {m \in Rows(db.notes) :
                            \A r \in db.folders : r.folder_name # m.folder
                                                  \/ r.account_name # m.account}}
         /\ db'.notes = db.notes]_vars

\* C20 witness: the directory held C1, then D2 was added; the second
\* run's populate left the accounts row (Gmail, 1) of the first run as it
\* was, two Notes now having that account, and added the folders row
\* (Home, Gmail, 1)
C20_Witness ==
    /\ rerun /\ pc = "report"
    /\ [account_name |-> "Gmail", note_count |-> 1] \in prev.accounts
    /\ db.accounts = prev.accounts
    /\ NotesOfAccount(db, "Gmail") = 2
    /\ [folder_name |-> "Home", account_name |-> "Gmail", note_count |-> 1]
          \in db.folders \ prev.folders

\* ------------------------------------------------------------ C21..C30

\* the parsed timestamps a column holds: the values that are not NULL
Parsed(d, column) == {n[column] : n \in Rows(d.notes)} \ {NoDatetime}

\* v is the range end of the timestamps: the earliest (or latest) of
\* them, and null when there is none
IsEarliest(v, timestamps) ==
    IF timestamps = {} THEN v = NoDatetime
    ELSE v \in timestamps /\ \A w \in timestamps : ~Before(w, v)

IsLatest(v, timestamps) ==
    IF timestamps = {} THEN v = NoDatetime
    ELSE v \in timestamps /\ \A w \in timestamps : ~Before(v, w)

\* C21: the report's earliest and latest created timestamps are the
\* minimum and maximum of created_datetime over the Notes whose
\* created_datetime is not null, its earliest and latest modified
\* timestamps those of modified_datetime over the Notes whose
\* modified_datetime is not null; a range is null when no Note has the
\* parsed timestamp
C21_DateRangesOverParsedTimestamps ==
    pc = "close" =>
        /\ IsEarliest(report.date_ranges.earliest_created, Parsed(db, "created_datetime"))
        /\ IsLatest(report.date_ranges.latest_created, Parsed(db, "created_datetime"))
        /\ IsEarliest(report.date_ranges.earliest_modified, Parsed(db, "modified_datetime"))
        /\ IsLatest(report.date_ranges.latest_modified, Parsed(db, "modified_datetime"))

\* the store the import loop leaves after the first k files of fs, on a
\* store that was empty
RECURSIVE ImportedPrefix(_, _)
ImportedPrefix(fs, k) ==
    IF k = 0 THEN create_schema(EmptyDb, EmptyStats).db
    ELSE LoopBody(ImportedPrefix(fs, k - 1), EmptyStats, fs[k]).db

\* the rows of the eight entity tables
EntityRows(d) == <<d.notes>> \o Children(d)

\* the number of files handled before the most recent periodic commit, when
\* the loop has handled k files: the commit of iteration i (i a multiple of
\* CommitEvery) comes before file i is read
LastCommitted(k) ==
    IF k < CommitEvery THEN 0 ELSE CommitEvery * (k \div CommitEvery) - 1

\* C22: when the run is interrupted in the import loop, the durable store
\* holds the Notes imported before the most recent commit, each with every
\* child row its import inserted, and no row of a Note imported after that
\* commit: in a first run it is the store the loop had left when it
\* committed last, in a run that follows interrupted runs it is the store
\* the loop leaves after some number of files that the last commit covers
C22_DurableStoreIsCommittedPrefix ==
    /\ (pc \in {"import", "killed"} /\ ~rerun /\ durable.indexes = {} /\ durable.schema # {}) =>
           EntityRows(durable) = EntityRows(ImportedPrefix(files, LastCommitted(idx)))
    /\ (pc \in {"import", "killed"} /\ prev = EmptyDb /\ durable.schema # {}) =>
           \E k \in LastCommitted(idx)..Len(files) :
               EntityRows(durable) = EntityRows(ImportedPrefix(files, k))
    /\ pc = "killed" => db = durable

\* a first run killed after it imported two notes, of which the last commit
\* covers the first, with its child rows
C22_Witness ==
    /\ pc = "killed" /\ ~rerun /\ idx = 3
    /\ stats.notes_imported = 2
    /\ Len(db.notes) = 1
    /\ Of(db.extracted_links, db.notes[1].note_id) # <<>>
    /\ Of(db.extracted_tasks, db.notes[1].note_id) # <<>>

\* C23: a run interrupted at any point, once or more often, and followed
\* by a complete run over the same records ends with the same Note, Link,
\* Image, Category, Analysis, Task, Idea and Project rows as one
\* uninterrupted run on an empty store
C23_RerunAfterCrashEqualsOneRun ==
    (pc = "close" /\ prev = EmptyDb) =>
        EntityRows(db) = EntityRows(ImportedPrefix(files, Len(files)))

\* a complete run on the store of a killed run: one of the two notes was
\* committed by the killed run, the other is imported by this run
C23_Witness ==
    /\ pc = "close" /\ rerun /\ prev = EmptyDb
    /\ Len(db.notes) = 2
    /\ stats.notes_imported = 1
    /\ \A i \in 1..2 : Of(db.extracted_images, db.notes[i].note_id) # <<>>

\* C24: create_schema on a store that has the schema, with or without
\* data, raises no error and leaves every table and every row as it was:
\* so it would on every store a run can see, and so it did when a run
\* starts on the store the previous run closed
C24_CreateSchemaIsIdempotent ==
    /\ db.schema # {} =>
           /\ ~create_schema(db, stats).exc
           /\ create_schema(db, stats).db = db
    /\ (rerun /\ pc = "import" /\ idx = 0) =>
           /\ db = durable
           /\ ~touched => db = prev

\* a second run has created the schema on a store that holds two notes and
\* lookup rows
C24_Witness ==
    /\ rerun /\ pc = "import" /\ idx = 0 /\ ~touched
    /\ Len(db.notes) = 2
    /\ db.extracted_links # <<>>
    /\ db.accounts # {}

\* the order of the phases of a run, and from one run to the next
PhaseOrder ==
    {<<"start", "schema">>, <<"start", "exit">>, <<"schema", "import">>,
     <<"import", "lookup">>, <<"lookup", "report">>, <<"report", "close">>,
     <<"close", "done">>, <<"done", "start">>, <<"exit", "start">>}

\* C25: the phases of a run come in a fixed order: the connection is open
\* with foreign keys enforced and the schema is created before the first
\* import_note call; the indexes are created, the lookup tables populated
\* and the statistics computed only after the last file was handled, in
\* that order, and nothing is imported after them
C25_PhasesInOrder ==
    [][/\ pc' # pc => <<pc, pc'>> \in PhaseOrder
       /\ pc' = "import" =>
              /\ conn'.open /\ conn'.foreign_keys
              /\ \A k \in 1..Len(Tables) : Tables[k] \in db'.schema
       /\ (idx' # idx /\ idx' # 0) => pc = "import" /\ pc' = "import"
       /\ pc' \in {"lookup", "report", "close"} => idx' = Len(files)
       /\ db'.indexes # db.indexes => pc = "import" /\ pc' = "lookup"
       /\ (db'.accounts # db.accounts \/ db'.folders # db.folders) =>
              pc = "lookup" /\ pc' = "report"
       /\ (report' # report /\ report' # NoReport) => pc = "report" /\ pc' = "close"
      ]_vars

\* a run over three files that went through every phase
C25_Witness ==
    /\ pc = "done" /\ ~rerun /\ idx = 3
    /\ Len(db.notes) = 2
    /\ db.indexes = Indexes
    /\ db.accounts # {}
    /\ report.total_notes = 2

\* no two rows of the table agree on every one of the columns
Unique(table, columns) ==
    \A i, j \in 1..Len(table) :
        i # j => \E c \in columns : table[i][c] # table[j][c]

\* C26: after any sequence of imports, re-imports and deletions no two
\* Notes share a note_id, no two Links of a note share a url, no two Images
\* of a note share a filename, no two Categories of a note share a category
C26_KeysAreUnique ==
    /\ Unique(db.notes, {"note_id"})
    /\ Unique(db.extracted_links, {"note_id", "url"})
    /\ Unique(db.extracted_images, {"note_id", "filename"})
    /\ Unique(db.note_categories, {"note_id", "category"})

\* a run that follows a deletion, over two files of the same note_id and a
\* third note, with a url named twice and a filename named twice: two
\* Notes, three Links, three Images
C26_Witness ==
    /\ rerun /\ touched /\ pc = "close"
    /\ files = <<A1, C1, B2>>
    /\ Len(db.notes) = 2
    /\ Len(db.extracted_links) = 3
    /\ Len(db.extracted_images) = 3

\* the child rows of a store whose note_id no Note row has
Orphans(d) ==
    {row \in UNION {Rows(Children(d)[k]) : k \in 1..7} : ~NoteExists(d, row.note_id)}

\* C27: no orphan child row is reachable: every Link, Image, Category,
\* Analysis, Task, Idea and Project row, in the working store and in the
\* durable one, has the note_id of a Note row
C27_NoOrphanChildRows ==
    /\ Orphans(db) = {}
    /\ Orphans(durable) = {}

\* after the deletion of a note that had rows in every child table, while
\* another note keeps its child rows
C27_Witness ==
    /\ pc = "done" /\ touched
    /\ NoteExists(prev, "n1") /\ ~NoteExists(db, "n1")
    /\ \A k \in 1..7 : Of(Children(prev)[k], "n1") # <<>>
    /\ Of(db.extracted_images, "n2") # <<>>

\* C28: after an import run on a store that was empty, each of
\* notes_imported, links_imported, images_imported, categories_imported,
\* tasks_imported, ideas_imported and projects_imported equals the number
\* of rows of its table
C28_CountersEqualRowCounts ==
    (~rerun /\ pc = "close") =>
        /\ stats.notes_imported = Len(db.notes)
        /\ stats.links_imported = Len(db.extracted_links)
        /\ stats.images_imported = Len(db.extracted_images)
        /\ stats.categories_imported = Len(db.note_categories)
        /\ stats.tasks_imported = Len(db.extracted_tasks)
        /\ stats.ideas_imported = Len(db.extracted_ideas)
        /\ stats.projects_imported = Len(db.extracted_projects)

\* the step logs "Failed to import note <note_id>"
LogsFailedImport ==
    /\ Len(stats'.errors) = Len(stats.errors) + 1
    /\ stats'.errors[Len(stats'.errors)].kind = "failed_import"

\* C29: whenever import_note records "Failed to import note" for a
\* record, the store holds no Note row and no child row written by that
\* call, and the call did not increment notes_imported
C29_FailedImportWritesNothing ==
    [][(Stepping /\ LogsFailedImport) =>
         /\ db' = db
         /\ stats'.notes_imported = stats.notes_imported]_vars

\* the Task, Idea and Project tables
Extracted == {"extracted_tasks", "extracted_ideas", "extracted_projects"}

\* the list of the record a table is filled from
EntriesOf(nd, table) ==
    CASE table = "extracted_tasks" -> nd.analysis.tasks
      [] table = "extracted_ideas" -> nd.analysis.ideas
      [] table = "extracted_projects" -> nd.analysis.projects

\* C30: the import of a record whose note_id has a Note row adds no Task,
\* Idea or Project row; the import of a new note adds one row for each
\* entry of its tasks, ideas and projects lists, entries of the same
\* content included; no import changes or removes a Task, Idea or Project
\* row the store holds
C30_ExtractedRowsDoNotAccumulate ==
    [][Stepping =>
         \A table \in Extracted :
             /\ Extends(db'[table], db[table])
             /\ (HasNoteId(Cur) /\ NoteExists(db, Cur.note_id)) => db'[table] = db[table]
             /\ (ImportsCur /\ ~Malformed(Cur) /\ EntriesWellFormed(Cur)) =>
                    Len(db'[table]) = Len(db[table]) + Len(EntriesOf(Cur, table).items)
      ]_vars

\* a second run has gone over A1 and B2 again: the Task, Idea and Project
\* rows are those of the first run, among them the two tasks of B2 that
\* have the same content
C30_Witness ==
    /\ rerun /\ ~touched /\ pc = "close" /\ files = <<A1, B2>>
    /\ stats.errors # <<>>
    /\ \A table \in Extracted : db[table] = prev[table]
    /\ Of(db.extracted_tasks, "n2") =
          <<[note_id |-> "n2", task_text |-> "t2"], [note_id |-> "n2", task_text |-> "t2"]>>
    /\ Len(db.extracted_tasks) = 3 /\ Len(db.extracted_ideas) = 1

====
